---- MODULE Spec2Model ----
(***************************************************************************)
(* Model of data-analysis/top.py: the record parser Process.from_line, the *)
(* per-pid series Top, the store DB and the ingestion loop process_top as  *)
(* driven by main().  Text is modelled as sequences of one-character       *)
(* strings, so that tokenising, integer/decimal/time parsing and the       *)
(* command substitution are computed as the code computes them.  List      *)
(* objects live in a heap and a Top holds references to nine of them, so   *)
(* that aliasing between Series is observable.                             *)
(***************************************************************************)
EXTENDS Integers, Sequences, FiniteSets, TLC

VARIABLES pc, dbs, heap, count, line, error, pidof, fed, lastOp

vars == <<pc, dbs, heap, count, line, error, pidof, fed, lastOp>>

(* ------------------------------ bounds --------------------------------- *)

MaxLines == 4
MaxFiles == 2
MaxCalls == 3

(* ---------------------------- constants -------------------------------- *)

FACTOR == 1000
SECOND == 1
MILLISECOND == SECOND * FACTOR
MICROSECOND == MILLISECOND * FACTOR

ProcessStatus == {"D", "I", "R", "S", "T", "t", "Z"}

NoError == "none"
None == <<>>

Raise(e) == [raised |-> e, value |-> None]
Return(v) == [raised |-> NoError, value |-> v]

(* --------------------------- text helpers ------------------------------ *)

Digits == {"0", "1", "2", "3", "4", "5", "6", "7", "8", "9"}
Whitespace == {" ", "\n", "\t"}

DigitVal(c) ==
    CASE c = "0" -> 0 [] c = "1" -> 1 [] c = "2" -> 2 [] c = "3" -> 3
      [] c = "4" -> 4 [] c = "5" -> 5 [] c = "6" -> 6 [] c = "7" -> 7
      [] c = "8" -> 8 [] c = "9" -> 9

IsDigits(s) == Len(s) > 0 /\ \A i \in 1..Len(s) : s[i] \in Digits

RECURSIVE DigitsVal(_)
DigitsVal(s) ==
    IF s = <<>> THEN 0
    ELSE DigitsVal(SubSeq(s, 1, Len(s) - 1)) * 10 + DigitVal(s[Len(s)])

RECURSIVE Pow10(_)
Pow10(n) == IF n = 0 THEN 1 ELSE 10 * Pow10(n - 1)

RECURSIVE SplitWs(_, _, _, _)
SplitWs(s, i, cur, acc) ==
    IF i > Len(s) THEN (IF cur = <<>> THEN acc ELSE Append(acc, cur))
    ELSE IF s[i] \in Whitespace
         THEN SplitWs(s, i + 1, <<>>, IF cur = <<>> THEN acc ELSE Append(acc, cur))
         ELSE SplitWs(s, i + 1, Append(cur, s[i]), acc)

\* str.split() without arguments: runs of whitespace separate, no empty tokens
split(s) == SplitWs(s, 1, <<>>, <<>>)

RECURSIVE SplitSep(_, _, _, _, _)
SplitSep(s, sep, i, cur, acc) ==
    IF i > Len(s) THEN Append(acc, cur)
    ELSE IF s[i] = sep
         THEN SplitSep(s, sep, i + 1, <<>>, Append(acc, cur))
         ELSE SplitSep(s, sep, i + 1, Append(cur, s[i]), acc)

\* str.split(sep): every occurrence separates, empty pieces are kept
split_on(s, sep) == SplitSep(s, sep, 1, <<>>, <<>>)

RECURSIVE ReplaceFrom(_, _, _, _)
ReplaceFrom(s, old, new, i) ==
    IF i > Len(s) THEN <<>>
    ELSE IF i + Len(old) - 1 <= Len(s) /\ SubSeq(s, i, i + Len(old) - 1) = old
         THEN new \o ReplaceFrom(s, old, new, i + Len(old))
         ELSE <<s[i]>> \o ReplaceFrom(s, old, new, i + 1)

\* str.replace(old, new) for a non-empty old
replace(s, old, new) == ReplaceFrom(s, old, new, 1)

(* --------------------------- value parsers ----------------------------- *)

\* int(text): optional sign followed by decimal digits, else ValueError
int(s) ==
    LET signed == Len(s) > 0 /\ s[1] \in {"-", "+"}
        body == IF signed THEN SubSeq(s, 2, Len(s)) ELSE s
    IN IF ~IsDigits(body) THEN Raise("ValueError")
       ELSE IF signed /\ s[1] = "-" THEN Return(0 - DigitsVal(body))
       ELSE Return(DigitsVal(body))

\* dec.Decimal(text): exact decimal kept as coefficient and exponent
Decimal(s) ==
    LET signed == Len(s) > 0 /\ s[1] \in {"-", "+"}
        body == IF signed THEN SubSeq(s, 2, Len(s)) ELSE s
        parts == split_on(body, ".")
        whole == parts[1]
        frac == IF Len(parts) = 2 THEN parts[2] ELSE <<>>
        wellformed == /\ Len(parts) \in {1, 2}
                      /\ \A i \in 1..Len(whole) : whole[i] \in Digits
                      /\ \A i \in 1..Len(frac) : frac[i] \in Digits
                      /\ Len(whole) + Len(frac) > 0
        coef == DigitsVal(whole \o frac)
    IN IF ~wellformed THEN Raise("InvalidOperation")
       ELSE Return([coef |-> IF signed /\ s[1] = "-" THEN 0 - coef ELSE coef,
                    exp |-> 0 - Len(frac)])

\* float(text) for the plain form digits[.digits] with at most six
\* fraction digits; the value is kept exactly as whole seconds and
\* millionths
float(s) ==
    LET parts == split_on(s, ".")
        whole == parts[1]
        frac == IF Len(parts) = 2 THEN parts[2] ELSE <<>>
        wellformed == /\ Len(parts) \in {1, 2}
                      /\ \A i \in 1..Len(whole) : whole[i] \in Digits
                      /\ \A i \in 1..Len(frac) : frac[i] \in Digits
                      /\ Len(whole) + Len(frac) > 0
                      /\ Len(frac) <= 6
    IN IF ~wellformed THEN Raise("ValueError")
       ELSE Return([whole |-> DigitsVal(whole),
                    micro |-> DigitsVal(frac) * Pow10(6 - Len(frac))])

\* A fraction is a binary fraction, hence exact as a double, iff its
\* millionths are a multiple of 5^6; for any other fraction the double
\* product (f_seconds % 1) * MICROSECOND may land just under the integer.
FloatUlps(micro) == IF micro % 15625 = 0 THEN {0} ELSE {0, 1}

\* dt.time(minute=, second=, microsecond=): range-checked fields
time_of(minute, second, microsecond) ==
    IF minute \notin 0..59 \/ second \notin 0..59
       \/ microsecond \notin 0..(MICROSECOND - 1)
    THEN Raise("ValueError")
    ELSE Return([hour |-> 0, minute |-> minute, second |-> second,
                 microsecond |-> microsecond])

python3 == <<"p", "y", "t", "h", "o", "n", "3">>
pd_client == <<"p", "d", "_", "c", "l", "i", "e", "n", "t">>

(* ------------------------------ Process -------------------------------- *)

\* Process.from_line: the set of results the call can produce (a single
\* one, except where the double arithmetic on the seconds may round down)
from_line(pid, user, pr, ni, virt, res, shr, s, cpu, mem, time, command) ==
    LET i_pid == int(pid)
        i_pr == int(pr)
        i_ni == int(ni)
        i_virt == int(virt)
        i_res == int(res)
        i_shr == int(shr)
        d_cpu == Decimal(replace(cpu, <<",">>, <<".">>))
        d_mem == Decimal(replace(mem, <<",">>, <<".">>))
        parts == split_on(time, ":")
        f_seconds == float(parts[2])
        i_minutes == int(parts[1])
        i_seconds == f_seconds.value.whole
        built(i_microsecond) ==
            LET t_time == time_of(i_minutes.value, i_seconds, i_microsecond)
            IN IF t_time.raised # NoError THEN Raise(t_time.raised)
               ELSE Return([pid |-> i_pid.value, user |-> user,
                            pr |-> i_pr.value, ni |-> i_ni.value,
                            virt |-> i_virt.value, res |-> i_res.value,
                            shr |-> i_shr.value, s |-> s[1],
                            cpu |-> d_cpu.value, mem |-> d_mem.value,
                            time |-> t_time.value,
                            command |-> replace(command, python3, pd_client)])
    IN IF i_pid.raised # NoError THEN {Raise(i_pid.raised)}
       ELSE IF i_pr.raised # NoError THEN {Raise(i_pr.raised)}
       ELSE IF i_ni.raised # NoError THEN {Raise(i_ni.raised)}
       ELSE IF i_virt.raised # NoError THEN {Raise(i_virt.raised)}
       ELSE IF i_res.raised # NoError THEN {Raise(i_res.raised)}
       ELSE IF i_shr.raised # NoError THEN {Raise(i_shr.raised)}
       ELSE IF ~(Len(s) = 1 /\ s[1] \in ProcessStatus) THEN {Raise("KeyError")}
       ELSE IF d_cpu.raised # NoError THEN {Raise(d_cpu.raised)}
       ELSE IF d_mem.raised # NoError THEN {Raise(d_mem.raised)}
       ELSE IF Len(parts) # 2 THEN {Raise("ValueError")}
       ELSE IF f_seconds.raised # NoError THEN {Raise(f_seconds.raised)}
       ELSE IF i_minutes.raised # NoError THEN {Raise(i_minutes.raised)}
       ELSE {built(IF f_seconds.value.micro = 0 THEN 0
                   ELSE f_seconds.value.micro - u) :
                 u \in FloatUlps(f_seconds.value.micro)}

\* Process.from_line(*args): the call itself fails unless there are
\* exactly twelve positional arguments
from_line_call(args) ==
    IF Len(args) # 12 THEN {Raise("TypeError")}
    ELSE from_line(args[1], args[2], args[3], args[4], args[5], args[6],
                   args[7], args[8], args[9], args[10], args[11], args[12])

(* -------------------------------- Top ---------------------------------- *)

ListFields == <<"pr_list", "ni_list", "virt_list", "res_list", "shr_list",
                "s_list", "cpu_list", "mem_list", "time_list">>

MetricOf(f) ==
    CASE f = "pr_list" -> "pr" [] f = "ni_list" -> "ni"
      [] f = "virt_list" -> "virt" [] f = "res_list" -> "res"
      [] f = "shr_list" -> "shr" [] f = "s_list" -> "s"
      [] f = "cpu_list" -> "cpu" [] f = "mem_list" -> "mem"
      [] f = "time_list" -> "time"

\* the nine list objects created once by the class body as field defaults
TopDefaults == [i \in 1..9 |-> <<>>]

\* Top(pid=..., user=..., command=...) relying on the declared defaults
Top(pid, user, command) ==
    [pid |-> pid, user |-> user, command |-> command,
     pr_list |-> 1, ni_list |-> 2, virt_list |-> 3, res_list |-> 4,
     shr_list |-> 5, s_list |-> 6, cpu_list |-> 7, mem_list |-> 8,
     time_list |-> 9]

from_process_defaults(process, h) ==
    [top |-> Top(process.pid, process.user, process.command), heap |-> h]

\* Top.from_process: nine fresh one-element lists
from_process(process, h) ==
    LET n == Len(h)
    IN [top |-> [pid |-> process.pid, user |-> process.user,
                 command |-> process.command,
                 pr_list |-> n + 1, ni_list |-> n + 2, virt_list |-> n + 3,
                 res_list |-> n + 4, shr_list |-> n + 5, s_list |-> n + 6,
                 cpu_list |-> n + 7, mem_list |-> n + 8, time_list |-> n + 9],
        heap |-> h \o << <<process.pr>>, <<process.ni>>, <<process.virt>>,
                         <<process.res>>, <<process.shr>>, <<process.s>>,
                         <<process.cpu>>, <<process.mem>>, <<process.time>> >>]

(* --------------------------------- DB ---------------------------------- *)

\* DB.__init__: an empty dict
DBinit == [p \in {} |-> None]

DBget_none(database, item) == None

\* DB.get: the Top stored under item, or None
DBget(database, item) ==
    IF item \in DOMAIN database THEN <<database[item]>> ELSE None

DBpidof_user(database) == [pid \in DOMAIN database |-> database[pid].user]

\* DB.pidof
DBpidof(database) == [pid \in DOMAIN database |-> database[pid].command]

DBset_overwrite(database, top) ==
    [raised |-> NoError,
     database |-> [p \in DOMAIN database \cup {top.pid} |->
                      IF p = top.pid THEN top ELSE database[p]]]

\* DB.set
DBset(database, top) ==
    IF DBget(database, top.pid) # None
    THEN [raised |-> "SystemError: Top already exists", database |-> database]
    ELSE [raised |-> NoError,
          database |-> [p \in DOMAIN database \cup {top.pid} |->
                           IF p = top.pid THEN top ELSE database[p]]]

\* list.append on the list object ref
list_append(h, ref, v) == [h EXCEPT ![ref] = Append(@, v)]

list_prepend(h, ref, v) == [h EXCEPT ![ref] = <<v>> \o @]

DBappend_skip_time(database, h, process) ==
    LET got == DBget(database, process.pid)
        top == got[1]
        h1 == list_append(h, top.pr_list, process.pr)
        h2 == list_append(h1, top.ni_list, process.ni)
        h3 == list_append(h2, top.virt_list, process.virt)
        h4 == list_append(h3, top.res_list, process.res)
        h5 == list_append(h4, top.shr_list, process.shr)
        h6 == list_append(h5, top.s_list, process.s)
        h7 == list_append(h6, top.cpu_list, process.cpu)
        h8 == list_append(h7, top.mem_list, process.mem)
    IN IF got = None
       THEN [raised |-> "SystemError: Top does not exist", heap |-> h]
       ELSE [raised |-> NoError, heap |-> h8]

DBappend_prepend(database, h, process) ==
    LET got == DBget(database, process.pid)
        top == got[1]
        h1 == list_prepend(h, top.pr_list, process.pr)
        h2 == list_prepend(h1, top.ni_list, process.ni)
        h3 == list_prepend(h2, top.virt_list, process.virt)
        h4 == list_prepend(h3, top.res_list, process.res)
        h5 == list_prepend(h4, top.shr_list, process.shr)
        h6 == list_prepend(h5, top.s_list, process.s)
        h7 == list_prepend(h6, top.cpu_list, process.cpu)
        h8 == list_prepend(h7, top.mem_list, process.mem)
        h9 == list_prepend(h8, top.time_list, process.time)
    IN IF got = None
       THEN [raised |-> "SystemError: Top does not exist", heap |-> h]
       ELSE [raised |-> NoError, heap |-> h9]

\* DB.append
DBappend(database, h, process) ==
    LET got == DBget(database, process.pid)
        top == got[1]
        h1 == list_append(h, top.pr_list, process.pr)
        h2 == list_append(h1, top.ni_list, process.ni)
        h3 == list_append(h2, top.virt_list, process.virt)
        h4 == list_append(h3, top.res_list, process.res)
        h5 == list_append(h4, top.shr_list, process.shr)
        h6 == list_append(h5, top.s_list, process.s)
        h7 == list_append(h6, top.cpu_list, process.cpu)
        h8 == list_append(h7, top.mem_list, process.mem)
        h9 == list_append(h8, top.time_list, process.time)
    IN IF got = None
       THEN [raised |-> "SystemError: Top does not exist", heap |-> h]
       ELSE [raised |-> NoError, heap |-> h9]

\* the lambda of plot_cpu_time / plot_cpu_time_by_host, kept as whole
\* seconds and millionths
cpu_time_seconds(x) ==
    [seconds |-> (x.hour * 60 + x.minute) * 60 + x.second,
     micro |-> x.microsecond]

(* ------------------------------ inputs --------------------------------- *)

RECURSIVE JoinFrom(_, _)
JoinFrom(tokens, i) ==
    IF i > Len(tokens) THEN <<"\n">>
    ELSE (IF i = 1 THEN <<>> ELSE <<" ">>) \o tokens[i] \o JoinFrom(tokens, i + 1)

\* one line of top.log: the tokens separated by single blanks, newline-terminated
Join(tokens) == JoinFrom(tokens, 1)

LineA ==
    Join(<<<<"1", "0", "0">>,
           <<"a">>,
           <<"2", "0">>,
           <<"0">>,
           <<"5">>,
           <<"3">>,
           <<"1">>,
           <<"R">>,
           <<"1", ",", "5">>,
           <<"0", ".", "5">>,
           <<"1", ":", "0", "2", ".", "5", "0">>,
           <<"p", "y", "t", "h", "o", "n", "3">>>>)

LineB ==
    Join(<<<<"1", "0", "0">>,
           <<"b">>,
           <<"2", "0">>,
           <<"0">>,
           <<"6">>,
           <<"3">>,
           <<"1">>,
           <<"S">>,
           <<"2", ".", "5">>,
           <<"0", ",", "5">>,
           <<"0", ":", "0", "1", ".", "1", "3">>,
           <<"s", "h">>>>)

LineC ==
    Join(<<<<"2", "0", "0">>,
           <<"a">>,
           <<"2", "0">>,
           <<"0">>,
           <<"7">>,
           <<"4">>,
           <<"1">>,
           <<"S">>,
           <<"1", "2", ",", "3">>,
           <<"1", ".", "0">>,
           <<"0", ":", "0", "0", ".", "0", "0">>,
           <<"s", "h">>>>)

LineD ==
    Join(<<<<"2", "0", "0">>,
           <<"a">>,
           <<"3", "9">>,
           <<"1", "9">>,
           <<"7">>,
           <<"4">>,
           <<"2">>,
           <<"R">>,
           <<"1", "2", ".", "3">>,
           <<"1", ".", "0">>,
           <<"5", "9", ":", "5", "9", ".", "7", "5">>,
           <<"p", "y", "t", "h", "o", "n", "3">>>>)

LineQ ==
    Join(<<<<"1", "0", "0">>,
           <<"a">>,
           <<"2", "0">>,
           <<"0">>,
           <<"5">>,
           <<"3">>,
           <<"1">>,
           <<"Q">>,
           <<"1", ",", "5">>,
           <<"0", ".", "5">>,
           <<"1", ":", "0", "2", ".", "5", "0">>,
           <<"s", "h">>>>)

Line11 ==
    Join(<<<<"2", "0", "0">>,
           <<"a">>,
           <<"2", "0">>,
           <<"0">>,
           <<"7">>,
           <<"4">>,
           <<"1">>,
           <<"S">>,
           <<"1", "2", ",", "3">>,
           <<"1", ".", "0">>,
           <<"0", ":", "0", "0", ".", "0", "0">>>>)

Line13 ==
    Join(<<<<"2", "0", "0">>,
           <<"a">>,
           <<"2", "0">>,
           <<"0">>,
           <<"7">>,
           <<"4">>,
           <<"1">>,
           <<"S">>,
           <<"1", "2", ",", "3">>,
           <<"1", ".", "0">>,
           <<"0", ":", "0", "0", ".", "0", "0">>,
           <<"p", "y", "t", "h", "o", "n", "3">>,
           <<"x">>>>)

Line75 ==
    Join(<<<<"1", "0", "0">>,
           <<"a">>,
           <<"2", "0">>,
           <<"0">>,
           <<"5">>,
           <<"3">>,
           <<"1">>,
           <<"R">>,
           <<"1", ",", "5">>,
           <<"0", ".", "5">>,
           <<"7", "5", ":", "0", "0", ".", "0", "0">>,
           <<"s", "h">>>>)

GoodLines == {LineA, LineB, LineC, LineD}
BadLines == {LineQ, Line11, Line13, Line75}
Lines == GoodLines \cup BadLines

\* the records the good lines parse to
Processes == {r.value : r \in UNION {from_line_call(split(l)) : l \in GoodLines}}

(* ------------------------------- state --------------------------------- *)

RECURSIVE TotalLen(_)
TotalLen(ss) == IF ss = <<>> THEN 0 ELSE Len(ss[1]) + TotalLen(Tail(ss))

Init ==
    /\ pc = "main"
    /\ dbs = <<>>
    /\ heap = TopDefaults
    /\ count = 0
    /\ line = <<>>
    /\ error = NoError
    /\ pidof = DBinit
    /\ fed = <<>>
    /\ lastOp = [op |-> "none", db |-> 0, pid |-> 0, n |-> 0]

(* ------------------------- main and process_top ------------------------ *)

\* main: db = process_top(host) -- entry of process_top up to the loop
MainCallProcessTop ==
    /\ pc = "main"
    /\ Len(dbs) < MaxFiles
    /\ dbs' = Append(dbs, DBinit)
    /\ fed' = Append(fed, <<>>)
    /\ count' = 0
    /\ line' = <<>>
    /\ pc' = "loop"
    /\ UNCHANGED <<heap, error, pidof, lastOp>>

\* one iteration of "for line in log"
ProcessTopLine(ln) ==
    /\ pc = "loop"
    /\ TotalLen(fed) < MaxLines
    /\ count' = count + 1
    /\ line' = ln
    /\ \E parsed \in from_line_call(split(ln)) :
         LET cur == Len(dbs)
             process == parsed.value
             top == DBget(dbs[cur], process.pid)
             made == from_process(process, heap)
             stored == IF top = None THEN DBset(dbs[cur], made.top)
                       ELSE [raised |-> NoError, database |-> dbs[cur]]
             h1 == IF top = None THEN made.heap ELSE heap
             appended == DBappend(stored.database, h1, process)
         IN IF parsed.raised # NoError
            THEN /\ error' = parsed.raised
                 /\ pc' = "aborted"
                 /\ UNCHANGED <<dbs, heap, fed>>
            ELSE IF stored.raised # NoError
            THEN /\ error' = stored.raised
                 /\ pc' = "aborted"
                 /\ heap' = h1
                 /\ UNCHANGED <<dbs, fed>>
            ELSE IF appended.raised # NoError
            THEN /\ error' = appended.raised
                 /\ pc' = "aborted"
                 /\ heap' = h1
                 /\ dbs' = [dbs EXCEPT ![cur] = stored.database]
                 /\ UNCHANGED fed
            ELSE /\ dbs' = [dbs EXCEPT ![cur] = stored.database]
                 /\ heap' = appended.heap
                 /\ fed' = [fed EXCEPT ![cur] = Append(@, process)]
                 /\ UNCHANGED <<error, pc>>
    /\ UNCHANGED <<pidof, lastOp>>

\* end of file: process_top returns db
ProcessTopReturn ==
    /\ pc = "loop"
    /\ pc' = "returned"
    /\ UNCHANGED <<dbs, heap, count, line, error, pidof, fed, lastOp>>

\* main: pidof = db.pidof()
MainPidof ==
    /\ pc = "returned"
    /\ pidof' = DBpidof(dbs[Len(dbs)])
    /\ pc' = "main"
    /\ UNCHANGED <<dbs, heap, count, line, error, fed, lastOp>>

Next ==
    \/ MainCallProcessTop
    \/ \E ln \in Lines : ProcessTopLine(ln)
    \/ ProcessTopReturn
    \/ MainPidof

Spec == Init /\ [][Next]_vars

(* ----------------------- the DB interface called directly -------------- *)

\* DB()
CallNew ==
    /\ Len(dbs) < MaxFiles
    /\ dbs' = Append(dbs, DBinit)
    /\ error' = NoError
    /\ lastOp' = [op |-> "new", db |-> Len(dbs) + 1, pid |-> 0, n |-> lastOp.n]
    /\ UNCHANGED <<pc, heap, count, line, pidof, fed>>

\* db.set(Top.from_process(process))
CallSet(d, process) ==
    /\ lastOp.n < MaxCalls
    /\ LET made == from_process(process, heap)
           stored == DBset(dbs[d], made.top)
       IN /\ heap' = made.heap
          /\ dbs' = [dbs EXCEPT ![d] = stored.database]
          /\ error' = stored.raised
    /\ lastOp' = [op |-> "set", db |-> d, pid |-> process.pid, n |-> lastOp.n + 1]
    /\ UNCHANGED <<pc, count, line, pidof, fed>>

\* db.append(process)
CallAppend(d, process) ==
    /\ lastOp.n < MaxCalls
    /\ LET appended == DBappend(dbs[d], heap, process)
       IN /\ heap' = appended.heap
          /\ error' = appended.raised
    /\ lastOp' = [op |-> "append", db |-> d, pid |-> process.pid, n |-> lastOp.n + 1]
    /\ UNCHANGED <<pc, dbs, count, line, pidof, fed>>

\* db.pidof()
CallPidof(d) ==
    /\ pidof' = DBpidof(dbs[d])
    /\ error' = NoError
    /\ lastOp' = [op |-> "pidof", db |-> d, pid |-> 0, n |-> lastOp.n]
    /\ UNCHANGED <<pc, dbs, heap, count, line, fed>>

NextAPI ==
    \/ CallNew
    \/ \E d \in 1..Len(dbs), process \in Processes : CallSet(d, process)
    \/ \E d \in 1..Len(dbs), process \in Processes : CallAppend(d, process)
    \/ \E d \in 1..Len(dbs) : CallPidof(d)

SpecAPI == Init /\ [][NextAPI]_vars

(* ------------------------ auxiliary definitions ------------------------ *)

Stores == 1..Len(dbs)

\* the values of the nine lists of a Series, in the order of ListFields
Series(h, top) == [i \in 1..9 |-> h[top[ListFields[i]]]]

RecordsOf(rs, p) == SelectSeq(rs, LAMBDA r : r.pid = p)

PidsOf(rs) == {rs[i].pid : i \in 1..Len(rs)}

\* the values of one metric in the records with pid p, in arrival order
Projection(rs, p, m) ==
    LET sel == RecordsOf(rs, p) IN [i \in 1..Len(sel) |-> sel[i][m]]

IsPrefix(a, b) == Len(a) <= Len(b) /\ SubSeq(b, 1, Len(a)) = a

ParseErrors == {"TypeError", "ValueError", "KeyError", "InvalidOperation"}

StoreErrors == {"SystemError: Top already exists",
                "SystemError: Top does not exist"}

(* ------------------------------- claims -------------------------------- *)

\* C1: after every completed iteration of the process_top loop, the nine
\* metric lists of every Series in every store have the same length.
C1_EqualLengths ==
    \A d \in Stores : \A p \in DOMAIN dbs[d] : \A i \in 2..9 :
        Len(heap[dbs[d][p][ListFields[i]]]) = Len(heap[dbs[d][p].pr_list])

C1_Witness ==
    /\ pc = "loop"
    /\ error = NoError
    /\ \E p, q \in DOMAIN dbs[Len(dbs)] :
         /\ p # q
         /\ Len(heap[dbs[Len(dbs)][p].time_list]) >= 3
         /\ Len(heap[dbs[Len(dbs)][q].time_list]) >= 2

\* C2 (as claimed): the store holds one Series per distinct pid ingested
\* and every metric list of the Series of pid p is exactly the sequence of
\* that metric's values in the records with pid p, one element per record.
C2_OneElementPerRecord ==
    \A d \in Stores :
        /\ DOMAIN dbs[d] = PidsOf(fed[d])
        /\ \A p \in DOMAIN dbs[d] : \A i \in 1..9 :
             Series(heap, dbs[d][p])[i]
                 = Projection(fed[d], p, MetricOf(ListFields[i]))

\* C3 (as claimed): a line that fails to parse is skipped and ingestion
\* continues; no parse failure ends the pass when no strict policy was
\* selected.
C3_LenientByDefault ==
    error \in ParseErrors => pc # "aborted"

\* C4 (as claimed): a line whose cpuTime token is minutes:seconds.fraction
\* with minutes >= 0 and seconds in 0..59 (its other fields parseable) is
\* parsed successfully and its stored time converts to minutes*60 + seconds
\* elapsed seconds plus the fraction (to the microsecond, give or take one).
C4_ElapsedSeconds ==
    LET args == split(line)
        parts == split_on(args[11], ":")
        minutes == int(parts[1])
        seconds == float(parts[2])
        zero == <<"0", ":", "0", "0", ".", "0", "0">>
        tokenOK == /\ Len(parts) = 2
                   /\ minutes.raised = NoError /\ minutes.value >= 0
                   /\ seconds.raised = NoError /\ seconds.value.whole \in 0..59
        othersOK == \A r \in from_line(args[1], args[2], args[3], args[4],
                                       args[5], args[6], args[7], args[8],
                                       args[9], args[10], zero, args[12]) :
                        r.raised = NoError
        top == dbs[Len(dbs)][int(args[1]).value]
        stored == heap[top.time_list][Len(heap[top.time_list])]
    IN (pc \in {"loop", "aborted"} /\ count > 0 /\ Len(args) = 12
        /\ tokenOK /\ othersOK)
       => /\ error = NoError
          /\ cpu_time_seconds(stored).seconds
                 = minutes.value * 60 + seconds.value.whole
          /\ cpu_time_seconds(stored).micro
                 \in (seconds.value.micro - 1)..(seconds.value.micro + 1)

\* C5: in every store the user and command of the Series of pid p are
\* those of the first record ingested with pid p, pidof() maps exactly the
\* pids of the store to that first-seen command, whatever later records
\* with the same pid say, and calling pidof() leaves the store unchanged.
C5_FirstSeenState ==
    /\ \A d \in Stores :
         /\ \A p \in DOMAIN dbs[d] :
              /\ dbs[d][p].user = RecordsOf(fed[d], p)[1].user
              /\ dbs[d][p].command = RecordsOf(fed[d], p)[1].command
         /\ DBpidof(dbs[d])
                = [p \in PidsOf(fed[d]) |-> RecordsOf(fed[d], p)[1].command]
    /\ (pc = "main" /\ Len(dbs) > 0) =>
          pidof = [p \in PidsOf(fed[Len(dbs)]) |->
                      RecordsOf(fed[Len(dbs)], p)[1].command]

C5_PidofReadOnly ==
    (pc = "returned" /\ pc' = "main") =>
        /\ dbs' = dbs
        /\ \A d \in Stores : \A p \in DOMAIN dbs[d] :
             Series(heap', dbs'[d][p]) = Series(heap, dbs[d][p])

C5_FirstSeen == []C5_FirstSeenState /\ [][C5_PidofReadOnly]_vars

C5_Witness ==
    /\ pc = "main"
    /\ Len(dbs) > 0
    /\ \E p \in DOMAIN pidof :
         LET rs == RecordsOf(fed[Len(dbs)], p)
         IN \E i \in 2..Len(rs) :
               /\ rs[i].user # rs[1].user
               /\ rs[i].command # rs[1].command

\* C6: across every step the store only grows: a Series for pid p is
\* inserted exactly at the first record carrying p, no pid ever leaves a
\* store, and every metric list keeps its previous value as a prefix.
C6_Step ==
    /\ Len(dbs') >= Len(dbs)
    /\ \A d \in Stores :
         /\ DOMAIN dbs[d] \subseteq DOMAIN dbs'[d]
         /\ \A p \in DOMAIN dbs[d] :
              /\ dbs'[d][p] = dbs[d][p]
              /\ \A i \in 1..9 :
                   IsPrefix(Series(heap, dbs[d][p])[i],
                            Series(heap', dbs'[d][p])[i])
         /\ \A p \in DOMAIN dbs'[d] \ DOMAIN dbs[d] :
              /\ d = Len(dbs)
              /\ p \notin PidsOf(fed[d])
              /\ Len(fed'[d]) = Len(fed[d]) + 1
              /\ fed'[d][Len(fed'[d])].pid = p
         /\ PidsOf(fed'[d]) \subseteq DOMAIN dbs'[d]

C6_OnlyGrows == [][C6_Step]_vars

C6_Witness ==
    /\ pc = "returned"
    /\ \E p, q \in DOMAIN dbs[Len(dbs)] :
         /\ p # q
         /\ Len(heap[dbs[Len(dbs)][p].s_list]) >= 3
         /\ Len(heap[dbs[Len(dbs)][q].s_list]) >= 3

\* C7 (as claimed): a line that splits into more than twelve tokens is
\* accepted: the tokens from the twelfth on become the command of one
\* record, which is added to the store.
C7_LongLineAccepted ==
    LET args == split(line)
    IN (pc \in {"loop", "aborted"} /\ count > 0 /\ Len(args) > 12)
       => /\ error = NoError
          /\ int(args[1]).value \in DOMAIN dbs[Len(dbs)]
          /\ Len(fed[Len(dbs)]) > 0
          /\ fed[Len(dbs)][Len(fed[Len(dbs)])].pid = int(args[1]).value

\* C8: DB.set(top) raises "Top already exists" exactly when top.pid is a
\* key of the store and otherwise inserts top; DB.append(process) raises
\* "Top does not exist" exactly when process.pid is not a key and
\* otherwise appends; a failing call leaves the key set and every list of
\* every Series unchanged.
C8_Step ==
    LET d == lastOp'.db
        p == lastOp'.pid
        unchanged == /\ dbs' = dbs
                     /\ \A e \in Stores : \A q \in DOMAIN dbs[e] :
                          Series(heap', dbs'[e][q]) = Series(heap, dbs[e][q])
    IN /\ (lastOp'.n # lastOp.n /\ lastOp'.op = "set") =>
            /\ (error' = "SystemError: Top already exists")
                   <=> (p \in DOMAIN dbs[d])
            /\ error' \in {NoError, "SystemError: Top already exists"}
            /\ error' # NoError => unchanged
            /\ error' = NoError =>
                   /\ DOMAIN dbs'[d] = DOMAIN dbs[d] \cup {p}
                   /\ dbs'[d][p].pid = p
                   /\ \A q \in DOMAIN dbs[d] : dbs'[d][q] = dbs[d][q]
       /\ (lastOp'.n # lastOp.n /\ lastOp'.op = "append") =>
            /\ (error' = "SystemError: Top does not exist")
                   <=> (p \notin DOMAIN dbs[d])
            /\ error' \in {NoError, "SystemError: Top does not exist"}
            /\ error' # NoError => unchanged /\ heap' = heap
            /\ error' = NoError =>
                   /\ dbs' = dbs
                   /\ \A i \in 1..9 :
                        Len(Series(heap', dbs[d][p])[i])
                            = Len(Series(heap, dbs[d][p])[i]) + 1

C8_SetAppendErrors == [][C8_Step]_vars

C8_Witness ==
    /\ lastOp.op = "set"
    /\ error = "SystemError: Top already exists"
    /\ Len(heap[dbs[lastOp.db][lastOp.pid].pr_list]) >= 2
    /\ \E e \in Stores : lastOp.pid \notin DOMAIN dbs[e]

\* C9: no list object is shared between two Series (of the same or of
\* different stores) nor with the defaults declared by Top, and ingesting
\* a record for pid p changes only the lists of p's Series in the store
\* being filled.
C9_NoSharedList ==
    LET refs(d, p) == {dbs[d][p][ListFields[i]] : i \in 1..9}
        owners == {<<d, p>> \in Stores \X UNION {DOMAIN dbs[d] : d \in Stores} :
                      p \in DOMAIN dbs[d]}
        all == UNION {refs(o[1], o[2]) : o \in owners}
    IN /\ all \cap DOMAIN TopDefaults = {}
       /\ Cardinality(all) = 9 * Cardinality(owners)

C9_Frame ==
    LET cur == Len(dbs)
        target == IF Len(fed') = Len(fed) /\ fed' # fed
                  THEN {<<cur, fed'[cur][Len(fed'[cur])].pid>>}
                  ELSE {}
    IN \A d \in Stores : \A p \in DOMAIN dbs[d] :
           <<d, p>> \notin target =>
               /\ p \in DOMAIN dbs'[d]
               /\ Series(heap', dbs'[d][p]) = Series(heap, dbs[d][p])

C9_Independent == []C9_NoSharedList /\ [][C9_Frame]_vars

C9_Witness ==
    /\ Len(dbs) = 2
    /\ \E p \in DOMAIN dbs[1] \cap DOMAIN dbs[2] :
         /\ Len(heap[dbs[2][p].cpu_list]) >= 2
         /\ heap[dbs[1][p].cpu_list] # heap[dbs[2][p].cpu_list]
    /\ Cardinality(DOMAIN dbs[1]) = 2

\* C10: whatever parseable lines are read, in any order of pids, the loop
\* never raises "Top already exists" nor "Top does not exist".
C10_NoStoreError ==
    error \notin StoreErrors

C10_Witness ==
    /\ pc = "loop"
    /\ error = NoError
    /\ count >= 4
    /\ Cardinality(PidsOf(fed[Len(dbs)])) = 2
    /\ \E i \in 1..(Len(fed[Len(dbs)]) - 2) :
         /\ fed[Len(dbs)][i].pid = fed[Len(dbs)][i + 2].pid
         /\ fed[Len(dbs)][i].pid # fed[Len(dbs)][i + 1].pid

====
